---- MODULE Spec2Model ----
(***************************************************************************)
(* Treatment booking system: booking controller, timeslot counters and     *)
(* conflict queries, modelled from the backend sources.                    *)
(*                                                                         *)
(* Time is counted in minutes since the server process started.            *)
(***************************************************************************)
EXTENDS Integers, Sequences, FiniteSets, TLC

VARIABLES
    bookings,   \* the bookings table: a sequence of rows, row i has id i
    slots,      \* the timeslots table: slot id -> row
    events,     \* event types the booking handlers handed to triggerWebhooks
    now,        \* the wall clock (new Date())
    pc,         \* position of each concurrent createBooking request
    rq,         \* the request each worker is serving
    subs,       \* the webhook_subscriptions table: a sequence of rows, row i has id i
    stores,     \* the stores table: store id -> row (operatingHours, settings)
    treatments, \* the treatments table: treatment id -> row
    loaded      \* the row instance each worker read and has not yet saved

vars == <<bookings, slots, events, now, pc, rq, subs, stores, treatments, loaded>>

(***************************************************************************)
(* Bounds of the model                                                     *)
(***************************************************************************)
MaxBookings == 2        \* rows the bookings table may hold
MaxSubs == 2            \* rows the webhook_subscriptions table may hold
MaxFailures == 3        \* cap on a subscription's retryCount
MaxCurrent == 2         \* cap on a timeslot counter driven by reserveTimeslot
NumWorkers == 2         \* concurrent createBooking requests

(***************************************************************************)
(* Null values: ids are strings, instants are integers                     *)
(***************************************************************************)
NullId == "null"
NullTime == 0 - 1
NullReason == "null"

(***************************************************************************)
(* config/index.js                                                         *)
(***************************************************************************)
PENDING == "pending"
CONFIRMED == "confirmed"
IN_PROGRESS == "in_progress"
COMPLETED == "completed"
CANCELLED == "cancelled"
NO_SHOW == "no_show"

bookingStatus == {PENDING, CONFIRMED, IN_PROGRESS, COMPLETED, CANCELLED, NO_SHOW}

cancellationDeadlineHours == 24

MinutesPerHour == 60

BOOKING_CREATED == "booking.created"
BOOKING_CANCELLED == "booking.cancelled"

(***************************************************************************)
(* Fixture: one store, its users, treatments, resources                    *)
(***************************************************************************)
UserIds == {"sa", "a1", "u1", "u2", "c1", "c2"}

Users ==
    [u \in UserIds |->
        CASE u = "sa" -> [role |-> "super_admin", storeId |-> NullId, isActive |-> TRUE]
          [] u = "a1" -> [role |-> "store_admin", storeId |-> "s1", isActive |-> TRUE]
          [] u = "u1" -> [role |-> "staff", storeId |-> "s1", isActive |-> TRUE]
          [] u = "u2" -> [role |-> "staff", storeId |-> "s1", isActive |-> FALSE]
          [] u = "c1" -> [role |-> "customer", storeId |-> NullId, isActive |-> TRUE]
          [] u = "c2" -> [role |-> "customer", storeId |-> NullId, isActive |-> FALSE]]

TreatmentIds == {"x1", "x2", "x3"}

Treatments ==
    [x \in TreatmentIds |->
        CASE x = "x1" -> [storeId |-> "s1", duration |-> 60, isActive |-> TRUE,
                          maxConcurrentBookings |-> 1, requiredResources |-> {"r1"}]
          [] x = "x2" -> [storeId |-> "s2", duration |-> 60, isActive |-> TRUE,
                          maxConcurrentBookings |-> 1, requiredResources |-> {}]
          [] x = "x3" -> [storeId |-> "s1", duration |-> 60, isActive |-> FALSE,
                          maxConcurrentBookings |-> 1, requiredResources |-> {}]]

ResourceIds == {"r1"}

Resources == [r \in ResourceIds |-> [storeId |-> "s1", capacity |-> 1, isActive |-> TRUE]]

\* requested start times: equal, overlapping and touching 60-minute intervals
Starts == {1500, 1530, 1560}

\* instants the clock passes through
Instants == <<0, 90, 1600>>

SlotIds == {"t1"}

InitSlots ==
    [t \in SlotIds |->
        [storeId |-> "s1", startTime |-> 1500, endTime |-> 1620,
         maxCapacity |-> 1, currentBookings |-> 0, isActive |-> TRUE,
         treatmentTypes |-> {}]]

StoreIds == {"s1"}

DayNames == <<"sunday", "monday", "tuesday", "wednesday", "thursday", "friday", "saturday">>

\* one day's entry of Store.operatingHours; open and close are "HH:MM"
\* strings, kept as <<hours, minutes>>
OpenHours == [open |-> <<1, 0>>, close |-> <<3, 0>>, closed |-> FALSE]
ClosedHours == [open |-> <<1, 0>>, close |-> <<3, 0>>, closed |-> TRUE]

\* the stores table: every day open, Store.settings as left by
\* QuotaController.updateQuotaSettings
Stores ==
    [st \in StoreIds |->
        [operatingHours |-> [d \in {DayNames[k] : k \in DOMAIN DayNames} |-> OpenHours],
         settings |-> [maxDailyBookings |-> 1]]]

MinutesPerDay == 1440

(***************************************************************************)
(* Booking model                                                           *)
(***************************************************************************)
NonBlocking == {CANCELLED, NO_SHOW}

getEndDateTime(b) == b.bookingDateTime + b.duration

\* The WHERE clause shared by every conflict query: bookingDateTime BETWEEN
\* startTime AND endTime (both ends included), or a start before startTime
\* with an end after it.
ConflictWindow(b, startTime, endTime) ==
    \/ (b.bookingDateTime >= startTime /\ b.bookingDateTime <= endTime)
    \/ (b.bookingDateTime < startTime /\ b.bookingDateTime + b.duration > startTime)

findConflicting(bks, staffId, startTime, endTime, excludeBookingId) ==
    {i \in DOMAIN bks :
        /\ bks[i].staffId = staffId
        /\ bks[i].status \notin NonBlocking
        /\ ConflictWindow(bks[i], startTime, endTime)
        /\ (excludeBookingId # 0 => i # excludeBookingId)}

\* index unique_staff_booking_time on (staff_id, booking_date_time)
\* WHERE status NOT IN (cancelled, no_show); NULL staff ids never collide.
UniqueStaffBookingTime(bks, self, row) ==
    \/ row.status \in NonBlocking
    \/ row.staffId = NullId
    \/ \A i \in DOMAIN bks :
          \/ i = self
          \/ bks[i].status \in NonBlocking
          \/ bks[i].staffId # row.staffId
          \/ bks[i].bookingDateTime # row.bookingDateTime

\* variant: only the deadline is looked at
canBeCancelledAnyStatus(b, t) ==
    b.bookingDateTime - t >= cancellationDeadlineHours * MinutesPerHour

canBeCancelled(b, t) ==
    /\ b.status \notin {COMPLETED, CANCELLED, NO_SHOW}
    /\ b.bookingDateTime - t >= cancellationDeadlineHours * MinutesPerHour

canBeModified(b, t) ==
    /\ b.status \in {PENDING, CONFIRMED}
    /\ b.bookingDateTime > t

DB == [bookings |-> bookings, slots |-> slots, events |-> events]

Reply(code, db) == [code |-> code, db |-> db]

(***************************************************************************)
(* AvailabilityService.reserveTimeslot / releaseTimeslot and the Timeslot  *)
(* counter methods                                                         *)
(***************************************************************************)
incrementBookings(slot) == [slot EXCEPT !.currentBookings = @ + 1]

decrementBookings(slot) ==
    [slot EXCEPT !.currentBookings = IF @ - 1 > 0 THEN @ - 1 ELSE 0]

\* Timeslot.findOne: the rows covering [startTime, endTime]
coveringSlots(sl, storeId, startTime, endTime, activeOnly) ==
    {t \in DOMAIN sl :
        /\ sl[t].storeId = storeId
        /\ sl[t].startTime <= startTime
        /\ sl[t].endTime >= endTime
        /\ (activeOnly => sl[t].isActive)}

\* Timeslot.canAccommodateTreatment
canAccommodateTreatment(slot, treatmentId) ==
    slot.treatmentTypes = {} \/ treatmentId \in slot.treatmentTypes

\* checkAvailability: the Timeslot.findAll of active covering slots with room
availableSlots(sl, storeId, startTime, endTime) ==
    {t \in coveringSlots(sl, storeId, startTime, endTime, TRUE) :
        sl[t].currentBookings < sl[t].maxCapacity}

\* checkDailyBookingLimit: the store's non-terminal bookings on the day of startTime
dailyBookings(bks, storeId, startTime) ==
    {i \in DOMAIN bks :
        /\ bks[i].storeId = storeId
        /\ bks[i].bookingDateTime \div MinutesPerDay = startTime \div MinutesPerDay
        /\ bks[i].status \notin {CANCELLED, NO_SHOW}}

\* the states reserveTimeslot may leave: findOne returns any matching row
reserveTimeslot(db, storeId, startTime, endTime) ==
    IF coveringSlots(db.slots, storeId, startTime, endTime, TRUE) = {}
    THEN {db}
    ELSE {[db EXCEPT !.slots[t] = incrementBookings(@)] :
            t \in coveringSlots(db.slots, storeId, startTime, endTime, TRUE)}

releaseTimeslot(db, storeId, startTime, endTime) ==
    IF coveringSlots(db.slots, storeId, startTime, endTime, FALSE) = {}
    THEN {db}
    ELSE {[db EXCEPT !.slots[t] = decrementBookings(@)] :
            t \in coveringSlots(db.slots, storeId, startTime, endTime, FALSE)}

(***************************************************************************)
(* BookingController.createBooking                                         *)
(***************************************************************************)
CreateRequests ==
    [customerId : {"c1"}, storeId : {"s1"}, treatmentId : {"x1"},
     staffId : {NullId, "u1"}, bookingDateTime : Starts]
    \cup
    [customerId : {NullId, "c2", "c9"}, storeId : {"s1"}, treatmentId : {"x1"},
     staffId : {NullId}, bookingDateTime : {1500}]
    \cup
    [customerId : {"c1"}, storeId : {"s1"}, treatmentId : {"x2", "x3", "x9"},
     staffId : {NullId}, bookingDateTime : {1500}]
    \cup
    [customerId : {"c1"}, storeId : {"s1"}, treatmentId : {"x1"},
     staffId : {"c1", "u9"}, bookingDateTime : {1500}]
    \cup
    [customerId : {"c1"}, storeId : {"s1"}, treatmentId : {"x1"},
     staffId : {NullId}, bookingDateTime : {0}]

Actors == {"a1", "c1"}

finalCustomerId(actor, r) ==
    IF Users[actor].role = "customer" THEN actor ELSE r.customerId

NewBooking(actor, r) ==
    [customerId |-> finalCustomerId(actor, r),
     storeId |-> r.storeId,
     treatmentId |-> r.treatmentId,
     staffId |-> r.staffId,
     bookingDateTime |-> r.bookingDateTime,
     duration |-> treatments[r.treatmentId].duration,
     status |-> PENDING,
     cancellationReason |-> NullReason,
     cancelledAt |-> NullTime,
     completedAt |-> NullTime]

\* the checks made before Booking.create; "PASS" when none rejects
createPrecheck(bks, actor, r) ==
    IF finalCustomerId(actor, r) = NullId THEN "CUSTOMER_REQUIRED"
    ELSE IF r.treatmentId \notin TreatmentIds \/ ~treatments[r.treatmentId].isActive
        THEN "NOT_FOUND_ERROR"
    ELSE IF treatments[r.treatmentId].storeId # r.storeId THEN "TREATMENT_STORE_MISMATCH"
    ELSE IF finalCustomerId(actor, r) \notin UserIds
            \/ ~Users[finalCustomerId(actor, r)].isActive
        THEN "NOT_FOUND_ERROR"
    ELSE IF r.staffId # NullId
            /\ (\/ r.staffId \notin UserIds
                \/ Users[r.staffId].storeId # r.storeId
                \/ Users[r.staffId].role \notin {"staff", "store_admin"})
        THEN "INVALID_STAFF"
    ELSE "PASS"

createStaffCheck(bks, r) ==
    IF r.staffId # NullId
       /\ findConflicting(bks, r.staffId, r.bookingDateTime,
                          r.bookingDateTime + treatments[r.treatmentId].duration, 0) # {}
    THEN "CONFLICT_ERROR"
    ELSE "PASS"

\* the instant the Booking model was defined: the bound of the isAfter validator
ModelDefinedAt == 0

\* validate.isAfter on bookingDateTime
validDateTime(row) == row.bookingDateTime > ModelDefinedAt

\* Booking.create: validation, then the insert, refused by the unique index
bookingCreate(db, row) ==
    IF ~validDateTime(row) THEN Reply("VALIDATION_ERROR", db)
    ELSE IF ~UniqueStaffBookingTime(db.bookings, 0, row)
    THEN Reply("CONFLICT_ERROR", db)
    ELSE Reply("CREATED", [db EXCEPT !.bookings = Append(db.bookings, row)])

\* variant: the row is inserted before the staff conflict is looked for
createBookingInsertFirst(db, actor, r) ==
    IF createPrecheck(db.bookings, actor, r) # "PASS"
        THEN Reply(createPrecheck(db.bookings, actor, r), db)
    ELSE IF createStaffCheck(db.bookings, r) # "PASS"
        THEN Reply("CONFLICT_ERROR",
                   [db EXCEPT !.bookings = Append(db.bookings, NewBooking(actor, r))])
    ELSE bookingCreate(db, NewBooking(actor, r))

createBooking(db, actor, r) ==
    IF createPrecheck(db.bookings, actor, r) # "PASS"
        THEN Reply(createPrecheck(db.bookings, actor, r), db)
    ELSE IF createStaffCheck(db.bookings, r) # "PASS"
        THEN Reply("CONFLICT_ERROR", db)
    ELSE bookingCreate(db, NewBooking(actor, r))

Commit(reply) ==
    /\ Len(reply.db.bookings) <= MaxBookings
    /\ bookings' = reply.db.bookings
    /\ slots' = reply.db.slots
    /\ events' = reply.db.events

CreateBooking ==
    \E actor \in Actors, r \in CreateRequests :
        /\ Commit(createBooking(DB, actor, r))
        /\ UNCHANGED <<now, pc, rq, subs, stores, treatments, loaded>>

(***************************************************************************)
(* Booking.update: instance.update(values) with the beforeUpdate hook and  *)
(* the unique index                                                        *)
(***************************************************************************)
UpdateKeys == {"staffId", "bookingDateTime", "status", "cancellationReason", "cancelledAt"}

\* values: a record with a field "keys" (the keys the object owns) and one
\* field per key of UpdateKeys
setValues(b, values) ==
    [b EXCEPT
        !.staffId = IF "staffId" \in values.keys THEN values.staffId ELSE @,
        !.bookingDateTime =
            IF "bookingDateTime" \in values.keys THEN values.bookingDateTime ELSE @,
        !.status = IF "status" \in values.keys THEN values.status ELSE @,
        !.cancellationReason =
            IF "cancellationReason" \in values.keys THEN values.cancellationReason ELSE @,
        !.cancelledAt = IF "cancelledAt" \in values.keys THEN values.cancelledAt ELSE @]

\* hooks.beforeUpdate
beforeUpdate(old, new, t) ==
    [new EXCEPT
        !.completedAt = IF new.status # old.status /\ new.status = COMPLETED THEN t ELSE @,
        !.cancelledAt = IF new.status # old.status /\ new.status = CANCELLED THEN t ELSE @]

bookingUpdate(db, id, values, t) ==
    LET row == beforeUpdate(db.bookings[id], setValues(db.bookings[id], values), t)
    IN  IF "bookingDateTime" \in values.keys /\ ~validDateTime(row)
            THEN Reply("VALIDATION_ERROR", db)
        ELSE IF ~UniqueStaffBookingTime(db.bookings, id, row)
            THEN Reply("CONFLICT_ERROR", db)
        ELSE Reply("OK", [db EXCEPT !.bookings[id] = row])

NoValues ==
    [keys |-> {}, staffId |-> NullId, bookingDateTime |-> NullTime, status |-> PENDING,
     cancellationReason |-> NullReason, cancelledAt |-> NullTime]

BookingIds == 1 .. MaxBookings

(***************************************************************************)
(* BookingController.cancelBooking                                         *)
(***************************************************************************)
CancelReasons == {NullReason, "changed plans"}

DefaultReason == "Cancelled by user"

cancelValues(reason, t) ==
    [NoValues EXCEPT
        !.keys = {"status", "cancellationReason", "cancelledAt"},
        !.status = CANCELLED,
        !.cancellationReason = IF reason = NullReason THEN DefaultReason ELSE reason,
        !.cancelledAt = t]

\* variant: a cancellation also releases the timeslot covering the booking
cancelBookingReleasing(db, t, actor, id, reason) ==
    IF id \notin DOMAIN db.bookings THEN Reply("NOT_FOUND_ERROR", db)
    ELSE IF Users[actor].role = "customer" /\ db.bookings[id].customerId # actor
        THEN Reply("AUTHORIZATION_ERROR", db)
    ELSE IF Users[actor].role \in {"store_admin", "staff"}
            /\ db.bookings[id].storeId # Users[actor].storeId
        THEN Reply("AUTHORIZATION_ERROR", db)
    ELSE IF ~canBeCancelled(db.bookings[id], t)
        THEN Reply("BOOKING_NOT_CANCELLABLE", db)
    ELSE LET released ==
                CHOOSE d \in releaseTimeslot(db, db.bookings[id].storeId,
                                             db.bookings[id].bookingDateTime,
                                             getEndDateTime(db.bookings[id])) : TRUE
         IN  bookingUpdate(released, id, cancelValues(reason, t), t)

cancelBooking(db, t, actor, id, reason) ==
    IF id \notin DOMAIN db.bookings THEN Reply("NOT_FOUND_ERROR", db)
    ELSE IF Users[actor].role = "customer" /\ db.bookings[id].customerId # actor
        THEN Reply("AUTHORIZATION_ERROR", db)
    ELSE IF Users[actor].role \in {"store_admin", "staff"}
            /\ db.bookings[id].storeId # Users[actor].storeId
        THEN Reply("AUTHORIZATION_ERROR", db)
    ELSE IF ~canBeCancelled(db.bookings[id], t)
        THEN Reply("BOOKING_NOT_CANCELLABLE", db)
    ELSE bookingUpdate(db, id, cancelValues(reason, t), t)

CancelWith(reasons) ==
    \E actor \in Actors, id \in BookingIds, reason \in reasons :
        /\ Commit(cancelBooking(DB, now, actor, id, reason))
        /\ UNCHANGED <<now, pc, rq, subs, stores, treatments, loaded>>

\* cancelBooking with and without a reason in the body
CancelBooking == CancelWith(CancelReasons)

\* cancelBooking with an empty body
CancelBookingNoReason == CancelWith({NullReason})

(***************************************************************************)
(* BookingController.getBookingById                                        *)
(***************************************************************************)
getBookingById(db, actor, id) ==
    IF id \notin DOMAIN db.bookings THEN Reply("NOT_FOUND_ERROR", db)
    ELSE IF Users[actor].role = "customer" /\ db.bookings[id].customerId # actor
        THEN Reply("AUTHORIZATION_ERROR", db)
    ELSE IF Users[actor].role \in {"store_admin", "staff"}
            /\ db.bookings[id].storeId # Users[actor].storeId
        THEN Reply("AUTHORIZATION_ERROR", db)
    ELSE Reply("OK", db)

(***************************************************************************)
(* BookingController.updateBookingStatus                                   *)
(***************************************************************************)
statusValues(status) == [NoValues EXCEPT !.keys = {"status"}, !.status = status]

updateBookingStatus(db, t, actor, id, status) ==
    IF Users[actor].role = "customer" THEN Reply("AUTHORIZATION_ERROR", db)
    ELSE IF id \notin DOMAIN db.bookings THEN Reply("NOT_FOUND_ERROR", db)
    ELSE IF db.bookings[id].storeId # Users[actor].storeId
        THEN Reply("AUTHORIZATION_ERROR", db)
    ELSE bookingUpdate(db, id, statusValues(status), t)

UpdateBookingStatus ==
    \E actor \in Actors, id \in BookingIds, status \in bookingStatus :
        /\ Commit(updateBookingStatus(DB, now, actor, id, status))
        /\ UNCHANGED <<now, pc, rq, subs, stores, treatments, loaded>>

(***************************************************************************)
(* BookingController.updateBooking                                         *)
(***************************************************************************)
\* request bodies: reschedule, staff change, status change, at most two keys
UpdateRequests ==
    {u \in [keys : SUBSET {"staffId", "bookingDateTime", "status"},
            staffId : {NullId, "u1", "c1"},
            bookingDateTime : Starts \cup {NullTime},
            status : bookingStatus,
            cancellationReason : {NullReason},
            cancelledAt : {NullTime}] :
        /\ Cardinality(u.keys) <= 2
        /\ ("staffId" \notin u.keys => u.staffId = NullId)
        /\ ("bookingDateTime" \in u.keys <=> u.bookingDateTime # NullTime)
        /\ ("status" \notin u.keys => u.status = PENDING)}

\* a customer's body keeps notes, and status with cancellationReason when the
\* status asked for is cancelled; every other key is deleted
customerFilter(u) ==
    LET allowed == IF "status" \in u.keys /\ u.status = CANCELLED
                   THEN {"notes", "status", "cancellationReason"}
                   ELSE {"notes"}
        kept == u.keys \cap allowed
    IN  [NoValues EXCEPT
            !.keys = kept,
            !.status = IF "status" \in kept THEN u.status ELSE @,
            !.cancellationReason =
                IF "cancellationReason" \in kept THEN u.cancellationReason ELSE @]

\* updates.staffId && updates.staffId !== booking.staffId
staffChanges(b, u) ==
    "staffId" \in u.keys /\ u.staffId # NullId /\ u.staffId # b.staffId

updateStart(b, u) ==
    IF "bookingDateTime" \in u.keys THEN u.bookingDateTime ELSE b.bookingDateTime

updateChecked(db, t, id, u) ==
    LET b == db.bookings[id]
    IN  IF staffChanges(b, u)
           /\ (\/ u.staffId \notin UserIds
               \/ Users[u.staffId].storeId # b.storeId
               \/ Users[u.staffId].role \notin {"staff", "store_admin"})
            THEN Reply("INVALID_STAFF", db)
        ELSE IF staffChanges(b, u)
                /\ findConflicting(db.bookings, u.staffId, updateStart(b, u),
                                   updateStart(b, u) + b.duration, id) # {}
            THEN Reply("CONFLICT_ERROR", db)
        ELSE IF ~canBeModified(b, t)
                /\ u.keys \cap {"status", "notes", "cancellationReason"} = {}
            THEN Reply("BOOKING_NOT_MODIFIABLE", db)
        ELSE bookingUpdate(db, id, u, t)

\* variant: a customer's body is applied as it came
updateBookingUnfiltered(db, t, actor, id, u) ==
    IF id \notin DOMAIN db.bookings THEN Reply("NOT_FOUND_ERROR", db)
    ELSE IF Users[actor].role = "customer"
        THEN IF db.bookings[id].customerId # actor
             THEN Reply("AUTHORIZATION_ERROR", db)
             ELSE updateChecked(db, t, id, u)
    ELSE IF Users[actor].role \in {"store_admin", "staff"}
            /\ db.bookings[id].storeId # Users[actor].storeId
        THEN Reply("AUTHORIZATION_ERROR", db)
    ELSE updateChecked(db, t, id, u)

updateBooking(db, t, actor, id, u) ==
    IF id \notin DOMAIN db.bookings THEN Reply("NOT_FOUND_ERROR", db)
    ELSE IF Users[actor].role = "customer"
        THEN IF db.bookings[id].customerId # actor
             THEN Reply("AUTHORIZATION_ERROR", db)
             ELSE updateChecked(db, t, id, customerFilter(u))
    ELSE IF Users[actor].role \in {"store_admin", "staff"}
            /\ db.bookings[id].storeId # Users[actor].storeId
        THEN Reply("AUTHORIZATION_ERROR", db)
    ELSE updateChecked(db, t, id, u)

UpdateBooking ==
    \E actor \in Actors, id \in BookingIds, u \in UpdateRequests :
        /\ Commit(updateBooking(DB, now, actor, id, u))
        /\ UNCHANGED <<now, pc, rq, subs, stores, treatments, loaded>>

(***************************************************************************)
(* The clock                                                               *)
(***************************************************************************)
Tick ==
    /\ \E i \in 1 .. Len(Instants) - 1 : now = Instants[i] /\ now' = Instants[i + 1]
    /\ UNCHANGED <<bookings, slots, events, pc, rq, subs, stores, treatments, loaded>>

(***************************************************************************)
(* AvailabilityService as called by clients of the service                 *)
(***************************************************************************)
\* intervals asked of the service: inside the slot, and one past its end
ServiceIntervals == {<<1500, 1560>>, <<1530, 1590>>, <<1560, 1620>>, <<1590, 1650>>}

ReserveTimeslot ==
    \E storeId \in {"s1", "s2"}, iv \in ServiceIntervals :
        \E db \in reserveTimeslot(DB, storeId, iv[1], iv[2]) :
            /\ \A t \in DOMAIN db.slots : db.slots[t].currentBookings <= MaxCurrent
            /\ Commit(Reply("OK", db))
            /\ UNCHANGED <<now, pc, rq, subs, stores, treatments, loaded>>

ReleaseTimeslot ==
    \E storeId \in {"s1", "s2"}, iv \in ServiceIntervals :
        \E db \in releaseTimeslot(DB, storeId, iv[1], iv[2]) :
            /\ Commit(Reply("OK", db))
            /\ UNCHANGED <<now, pc, rq, subs, stores, treatments, loaded>>

(***************************************************************************)
(* createBooking as concurrent requests: one step per awaited query.       *)
(* The lookups of the treatment, customer and staff rows read tables no    *)
(* booking request writes, so they form one step.                          *)
(***************************************************************************)
Workers == 1 .. NumWorkers

IdleRequest == [actor |-> "a1", body |-> CHOOSE r \in CreateRequests : TRUE, code |-> "NONE"]

\* Treatment.findByPk, User.findByPk (customer), User.findByPk (staff)
CreateBegin(w) ==
    /\ pc[w] = "idle"
    /\ \E actor \in Actors, r \in CreateRequests :
        LET verdict == createPrecheck(bookings, actor, r)
        IN  /\ rq' = [rq EXCEPT ![w] =
                        [actor |-> actor, body |-> r,
                         code |-> IF verdict = "PASS" THEN "NONE" ELSE verdict]]
            /\ pc' = [pc EXCEPT ![w] =
                        IF verdict # "PASS" THEN "done"
                        ELSE IF r.staffId # NullId THEN "check" ELSE "insert"]
    /\ UNCHANGED <<bookings, slots, events, now, subs, stores, treatments, loaded>>

\* Booking.findConflicting
CreateCheck(w) ==
    /\ pc[w] = "check"
    /\ LET verdict == createStaffCheck(bookings, rq[w].body)
       IN  /\ pc' = [pc EXCEPT ![w] = IF verdict = "PASS" THEN "insert" ELSE "done"]
           /\ rq' = [rq EXCEPT ![w].code = IF verdict = "PASS" THEN "NONE" ELSE verdict]
    /\ UNCHANGED <<bookings, slots, events, now, subs, stores, treatments, loaded>>

\* Booking.create
CreateInsert(w) ==
    /\ pc[w] = "insert"
    /\ LET reply == bookingCreate(DB, NewBooking(rq[w].actor, rq[w].body))
       IN  /\ Commit(reply)
           /\ rq' = [rq EXCEPT ![w].code = reply.code]
    /\ pc' = [pc EXCEPT ![w] = "done"]
    /\ UNCHANGED <<now, subs, stores, treatments, loaded>>

(***************************************************************************)
(* WebhookSubscription model                                               *)
(***************************************************************************)
EventTypes == {BOOKING_CREATED, BOOKING_CANCELLED}

\* the error message of a failed POST
PostError == "Request failed with status code 500"

NewSubscription(url, evs, maxRetries) ==
    [url |-> url, events |-> evs, isActive |-> TRUE, retryCount |-> 0,
     maxRetries |-> maxRetries, lastSuccessAt |-> NullTime,
     lastFailureAt |-> NullTime, lastFailureReason |-> NullReason]

isSubscribedTo(sub, eventType) == eventType \in sub.events

\* variant: a success also switches the subscription back on
recordSuccessReactivating(sub, t) ==
    [sub EXCEPT !.lastSuccessAt = t, !.retryCount = 0, !.lastFailureReason = NullReason,
                !.isActive = TRUE]

recordSuccess(sub, t) ==
    [sub EXCEPT !.lastSuccessAt = t, !.retryCount = 0, !.lastFailureReason = NullReason]

\* variant: the subscription is switched off only past maxRetries
recordFailureStrict(sub, reason, t) ==
    [sub EXCEPT !.lastFailureAt = t,
                !.lastFailureReason = reason,
                !.retryCount = @ + 1,
                !.isActive = IF sub.retryCount + 1 > sub.maxRetries THEN FALSE ELSE @]

recordFailure(sub, reason, t) ==
    [sub EXCEPT !.lastFailureAt = t,
                !.lastFailureReason = reason,
                !.retryCount = @ + 1,
                !.isActive = IF sub.retryCount + 1 >= sub.maxRetries THEN FALSE ELSE @]

resetRetries(sub) ==
    [sub EXCEPT !.retryCount = 0, !.lastFailureReason = NullReason, !.isActive = TRUE]

shouldRetry(sub) == sub.isActive /\ sub.retryCount < sub.maxRetries

\* variant: the backoff without its ceiling
getNextRetryDelayUncapped(sub) == (2 ^ sub.retryCount) * 1000

\* milliseconds: Math.min(Math.pow(2, retryCount) * 1000, 60000)
getNextRetryDelay(sub) ==
    IF (2 ^ sub.retryCount) * 1000 < 60000 THEN (2 ^ sub.retryCount) * 1000 ELSE 60000

\* variant: a recent failure is looked at before the retry count
getHealthStatusWarningFirst(sub, t) ==
    IF ~sub.isActive THEN "disabled"
    ELSE IF sub.lastFailureAt # NullTime /\ sub.lastFailureAt > t - MinutesPerDay
        THEN "warning"
    ELSE IF sub.retryCount > 0 THEN "retrying"
    ELSE IF sub.lastSuccessAt = NullTime \/ sub.lastSuccessAt < t - MinutesPerDay
        THEN "inactive"
    ELSE "healthy"

getHealthStatus(sub, t) ==
    IF ~sub.isActive THEN "disabled"
    ELSE IF sub.retryCount > 0 THEN "retrying"
    ELSE IF sub.lastFailureAt # NullTime /\ sub.lastFailureAt > t - MinutesPerDay
        THEN "warning"
    ELSE IF sub.lastSuccessAt = NullTime \/ sub.lastSuccessAt < t - MinutesPerDay
        THEN "inactive"
    ELSE "healthy"

\* variant: the query leaves out isActive
findSubscribedForEvent(table, eventType) ==
    {i \in DOMAIN table : isSubscribedTo(table[i], eventType)}

findActiveForEvent(table, eventType) ==
    {i \in DOMAIN table : table[i].isActive /\ isSubscribedTo(table[i], eventType)}

\* the object literal names retryCount twice: the later condition is the one kept
findFailedWebhooks(table) ==
    {i \in DOMAIN table : table[i].retryCount < table[i].maxRetries /\ table[i].isActive}

(***************************************************************************)
(* WebhookController                                                       *)
(***************************************************************************)
SubIds == 1 .. MaxSubs

\* sendWebhook: one POST, answered 2xx (ok) or failing, and the row it saves
sendWebhook(sub, t, ok) ==
    IF ok THEN recordSuccess(sub, t) ELSE recordFailure(sub, PostError, t)

\* triggerWebhooks: failing is the set of subscriptions whose subscriber fails
\* the POST; posts counts the POSTs each subscription receives
triggerWebhooks(table, t, eventType, failing) ==
    LET subscriptions == findActiveForEvent(table, eventType)
    IN  [subs |-> [i \in DOMAIN table |->
                      IF i \in subscriptions
                      THEN sendWebhook(table[i], t, i \notin failing)
                      ELSE table[i]],
         posts |-> [i \in DOMAIN table |-> IF i \in subscriptions THEN 1 ELSE 0],
         sent |-> Cardinality(subscriptions \ failing),
         failed |-> Cardinality(subscriptions \cap failing)]

\* what this.save() does during one sendWebhook: it saves, it throws once
\* and then saves, or it throws every time
SaveOutcomes == {"saved", "failsOnce", "down"}

\* the error message of a failed save
SaveError == "SequelizeConnectionError"

\* sendWebhook with a save that may throw: the row left in the table and how
\* the call ends (a result with success true or false, or an exception)
sendWebhookSaving(sub, t, ok, save) ==
    IF save = "saved"
        THEN [row |-> sendWebhook(sub, t, ok),
              outcome |-> IF ok THEN "success" ELSE "failure"]
    ELSE IF save = "failsOnce" /\ ok
        THEN [row |-> recordFailure(recordSuccess(sub, t), SaveError, t),
              outcome |-> "failure"]
    ELSE [row |-> sub, outcome |-> "throw"]

\* variant: nothing catches what findActiveForEvent or sendWebhook throws
triggerWebhooksUncaught(table, t, eventType, failing, loadFails, saves) ==
    LET subscriptions == IF loadFails THEN {} ELSE findActiveForEvent(table, eventType)
        result == [i \in subscriptions |->
                      sendWebhookSaving(table[i], t, i \notin failing, saves[i])]
    IN  [subs |-> [i \in DOMAIN table |->
                      IF i \in subscriptions THEN result[i].row ELSE table[i]],
         sent |-> Cardinality({i \in subscriptions : result[i].outcome = "success"}),
         failed |-> Cardinality({i \in subscriptions : result[i].outcome = "failure"}),
         threw |-> loadFails \/ \E i \in subscriptions : result[i].outcome = "throw"]

\* triggerWebhooks with faults of the database: loadFails when
\* findActiveForEvent throws, saves[i] the outcome of saving row i
triggerWebhooksFaulty(table, t, eventType, failing, loadFails, saves) ==
    LET subscriptions == IF loadFails THEN {} ELSE findActiveForEvent(table, eventType)
        result == [i \in subscriptions |->
                      sendWebhookSaving(table[i], t, i \notin failing, saves[i])]
    IN  [subs |-> [i \in DOMAIN table |->
                      IF i \in subscriptions THEN result[i].row ELSE table[i]],
         sent |-> Cardinality({i \in subscriptions : result[i].outcome = "success"}),
         failed |-> Cardinality({i \in subscriptions : result[i].outcome # "success"}),
         threw |-> FALSE]

WebhookActors == {"sa", "a1"}

MaxRetriesValues == {0, 1, 2}

SubscriptionBodies ==
    [url : {"https://hooks.example/a"},
     events : {{BOOKING_CREATED}, {BOOKING_CANCELLED}},
     maxRetries : MaxRetriesValues]

createSubscription(table, actor, body) ==
    IF Users[actor].role # "super_admin" THEN Reply("AUTHORIZATION_ERROR", table)
    ELSE Reply("CREATED", Append(table, NewSubscription(body.url, body.events, body.maxRetries)))

\* bodies of updateSubscription: the keys they own and their values
SubscriptionUpdates ==
    [keys : {{"isActive"}}, isActive : BOOLEAN, maxRetries : {0}]
    \cup
    [keys : {{"maxRetries"}}, isActive : {TRUE}, maxRetries : MaxRetriesValues]

updateSubscription(table, actor, id, updates) ==
    IF Users[actor].role # "super_admin" THEN Reply("AUTHORIZATION_ERROR", table)
    ELSE IF id \notin DOMAIN table THEN Reply("NOT_FOUND_ERROR", table)
    ELSE Reply("OK",
               [table EXCEPT ![id] =
                   [@ EXCEPT
                       !.isActive = IF "isActive" \in updates.keys
                                    THEN updates.isActive ELSE @,
                       !.maxRetries = IF "maxRetries" \in updates.keys
                                      THEN updates.maxRetries ELSE @]])

testSubscription(table, actor, id, t, ok) ==
    IF Users[actor].role # "super_admin" THEN Reply("AUTHORIZATION_ERROR", table)
    ELSE IF id \notin DOMAIN table THEN Reply("NOT_FOUND_ERROR", table)
    ELSE Reply("OK", [table EXCEPT ![id] = sendWebhook(@, t, ok)])

retryFailedWebhooks(table, actor) ==
    IF Users[actor].role # "super_admin" THEN Reply("AUTHORIZATION_ERROR", table)
    ELSE Reply("OK",
               [i \in DOMAIN table |->
                   IF i \in findFailedWebhooks(table) /\ shouldRetry(table[i])
                   THEN resetRetries(table[i]) ELSE table[i]])

\* the write of a webhook handler to the subscriptions table
CommitSubs(table) ==
    /\ Len(table) <= MaxSubs
    /\ \A i \in DOMAIN table : table[i].retryCount <= MaxFailures
    /\ subs' = table
    /\ UNCHANGED <<bookings, slots, events, now, pc, rq, stores, treatments, loaded>>

CreateSubscription ==
    \E actor \in WebhookActors, body \in SubscriptionBodies :
        CommitSubs(createSubscription(subs, actor, body).db)

UpdateSubscription ==
    \E actor \in WebhookActors, id \in SubIds, updates \in SubscriptionUpdates :
        CommitSubs(updateSubscription(subs, actor, id, updates).db)

TestSubscription ==
    \E actor \in WebhookActors, id \in SubIds, ok \in BOOLEAN :
        CommitSubs(testSubscription(subs, actor, id, now, ok).db)

RetryFailedWebhooks ==
    \E actor \in WebhookActors :
        CommitSubs(retryFailedWebhooks(subs, actor).db)

TriggerWebhooks ==
    \E eventType \in EventTypes, failing \in SUBSET SubIds :
        CommitSubs(triggerWebhooks(subs, now, eventType, failing).subs)

(***************************************************************************)
(* Timeslot generation: AvailabilityService.generateTimeslots,             *)
(* Timeslot.generateDailySlots, Timeslot.validateNoOverlap                 *)
(***************************************************************************)
\* dates are counted in days since the server process started; the store's
\* timezone is the server's
Dates == {1, 2}
SlotDurations == {60, 90, 120}
Capacities == {1, 2}

dayName(date) == DayNames[(date % 7) + 1]

startOfDay(date) == date * MinutesPerDay
endOfDay(date) == date * MinutesPerDay + (MinutesPerDay - 1)

\* setHours(h, m, 0, 0) on the date
setHours(date, hm) == startOfDay(date) + hm[1] * MinutesPerHour + hm[2]

\* the rows of the timeslots table are keyed by the columns of its unique
\* index (store_id, start_time, end_time)
slotKey(row) == <<row.storeId, row.startTime, row.endTime>>

NoSlots == [k \in {} |-> NullId]

\* the while loop of generateDailySlots from currentTime on
RECURSIVE slotLoop(_, _, _, _, _)
slotLoop(storeId, currentTime, endTime, slotDuration, capacity) ==
    IF currentTime < endTime
    THEN (IF currentTime + slotDuration <= endTime
          THEN {[storeId |-> storeId, startTime |-> currentTime,
                 endTime |-> currentTime + slotDuration,
                 maxCapacity |-> capacity, currentBookings |-> 0,
                 isActive |-> TRUE, treatmentTypes |-> {}]}
          ELSE {})
         \cup slotLoop(storeId, currentTime + slotDuration, endTime, slotDuration, capacity)
    ELSE {}

\* variant: the loop runs one slot further, so a slot that would end after
\* closing time is kept
generateDailySlotsPartial(st, storeId, date, slotDuration, capacity) ==
    IF st[storeId].operatingHours[dayName(date)].closed
    THEN {}
    ELSE slotLoop(storeId,
                  setHours(date, st[storeId].operatingHours[dayName(date)].open),
                  setHours(date, st[storeId].operatingHours[dayName(date)].close)
                      + (slotDuration - 1),
                  slotDuration, capacity)

generateDailySlots(st, storeId, date, slotDuration, capacity) ==
    IF st[storeId].operatingHours[dayName(date)].closed
    THEN {}
    ELSE slotLoop(storeId,
                  setHours(date, st[storeId].operatingHours[dayName(date)].open),
                  setHours(date, st[storeId].operatingHours[dayName(date)].close),
                  slotDuration, capacity)

\* Timeslot.destroy({where: {storeId, startTime between startOfDay and endOfDay}})
destroyForDate(sl, storeId, date) ==
    [k \in {j \in DOMAIN sl :
                ~(/\ sl[j].storeId = storeId
                  /\ sl[j].startTime >= startOfDay(date)
                  /\ sl[j].startTime <= endOfDay(date))} |-> sl[k]]

\* Timeslot.bulkCreate(slotsData): the rows are inserted as given
bulkCreate(sl, rows) ==
    [k \in DOMAIN sl \cup {slotKey(r) : r \in rows} |->
        IF k \in DOMAIN sl THEN sl[k]
        ELSE CHOOSE r \in rows : slotKey(r) = k]

\* the generation without the clearing of the date
generateTimeslotsKeeping(sl, st, storeId, date, slotDuration, maxCapacity) ==
    IF storeId \notin DOMAIN st
    THEN [code |-> "Store not found", slots |-> sl, slotsGenerated |-> 0]
    ELSE [code |-> "OK",
          slots |-> bulkCreate(sl,
                       generateDailySlots(st, storeId, date, slotDuration, maxCapacity)),
          slotsGenerated |->
              Cardinality(generateDailySlots(st, storeId, date, slotDuration, maxCapacity))]

generateTimeslots(sl, st, storeId, date, slotDuration, maxCapacity) ==
    IF storeId \notin DOMAIN st
    THEN [code |-> "Store not found", slots |-> sl, slotsGenerated |-> 0]
    ELSE [code |-> "OK",
          slots |-> bulkCreate(destroyForDate(sl, storeId, date),
                       generateDailySlots(st, storeId, date, slotDuration, maxCapacity)),
          slotsGenerated |->
              Cardinality(generateDailySlots(st, storeId, date, slotDuration, maxCapacity))]

\* the body of bulkGenerateTimeslots' loop from currentDate to end
RECURSIVE bulkLoop(_, _, _, _, _, _, _)
bulkLoop(sl, st, storeId, currentDate, end, slotDuration, maxCapacity) ==
    IF currentDate <= end
    THEN bulkLoop(generateTimeslots(sl, st, storeId, currentDate, slotDuration, maxCapacity).slots,
                  st, storeId, currentDate + 1, end, slotDuration, maxCapacity)
    ELSE sl

\* Timeslot.validateNoOverlap: the rows of the store other than the
\* timeslot itself whose start or end lies BETWEEN its start and end (both
\* ends included) or which enclose it; TRUE when the hook throws
validateNoOverlap(sl, id, timeslot) ==
    \E k \in DOMAIN sl :
        /\ k # id
        /\ sl[k].storeId = timeslot.storeId
        /\ \/ (sl[k].startTime >= timeslot.startTime /\ sl[k].startTime <= timeslot.endTime)
           \/ (sl[k].endTime >= timeslot.startTime /\ sl[k].endTime <= timeslot.endTime)
           \/ (sl[k].startTime <= timeslot.startTime /\ sl[k].endTime >= timeslot.endTime)

GenerateActors == {"sa", "a1", "u1"}

\* the role checks of generateTimeslots, bulkGenerateTimeslots and
\* updateOperatingHours
adminOfStore(actor, storeId) ==
    /\ ~(Users[actor].role = "store_admin" /\ Users[actor].storeId # storeId)
    /\ Users[actor].role \notin {"staff", "customer"}

MaxBulkDays == 30

GenerateTimeslots ==
    \E actor \in GenerateActors, storeId \in {"s1", "s2"}, date \in Dates,
       slotDuration \in SlotDurations, maxCapacity \in Capacities :
        /\ slots' = IF adminOfStore(actor, storeId)
                    THEN generateTimeslots(slots, stores, storeId, date,
                                           slotDuration, maxCapacity).slots
                    ELSE slots
        /\ UNCHANGED <<bookings, events, now, pc, rq, subs, stores, treatments, loaded>>

BulkGenerateTimeslots ==
    \E actor \in GenerateActors, storeId \in {"s1", "s2"},
       startDate \in Dates, endDate \in Dates,
       slotDuration \in SlotDurations, maxCapacity \in Capacities :
        /\ slots' = IF adminOfStore(actor, storeId) /\ endDate - startDate <= MaxBulkDays
                    THEN bulkLoop(slots, stores, storeId, startDate, endDate,
                                  slotDuration, maxCapacity)
                    ELSE slots
        /\ UNCHANGED <<bookings, events, now, pc, rq, subs, stores, treatments, loaded>>

\* StoreController.updateOperatingHours: the whole object is replaced
updateOperatingHours(st, actor, storeId, operatingHours) ==
    IF ~adminOfStore(actor, storeId) \/ storeId \notin DOMAIN st THEN st
    ELSE [st EXCEPT ![storeId].operatingHours = operatingHours]

HoursBodies ==
    {[d \in {DayNames[k] : k \in DOMAIN DayNames} |->
        IF d \in closedDays THEN ClosedHours ELSE OpenHours] :
     closedDays \in SUBSET {"monday", "tuesday"}}

UpdateOperatingHours ==
    \E actor \in GenerateActors, storeId \in {"s1", "s2"}, body \in HoursBodies :
        /\ stores' = updateOperatingHours(stores, actor, storeId, body)
        /\ UNCHANGED <<bookings, slots, events, now, pc, rq, subs, treatments, loaded>>

(***************************************************************************)
(* TreatmentController.deleteTreatment                                     *)
(***************************************************************************)
\* Booking.count: bookings of the treatment, pending or confirmed, that
\* start at or after the instant of the call
activeBookings(bks, treatmentId, t) ==
    Cardinality({i \in DOMAIN bks :
        /\ bks[i].treatmentId = treatmentId
        /\ bks[i].status \in {PENDING, CONFIRMED}
        /\ bks[i].bookingDateTime >= t})

\* the deactivation without the count of active bookings
deleteTreatmentUnchecked(bks, tr, t, actor, treatmentId) ==
    IF treatmentId \notin DOMAIN tr
        THEN [code |-> "NOT_FOUND_ERROR", treatments |-> tr]
    ELSE IF Users[actor].role = "store_admin" /\ tr[treatmentId].storeId # Users[actor].storeId
        THEN [code |-> "AUTHORIZATION_ERROR", treatments |-> tr]
    ELSE IF Users[actor].role \in {"staff", "customer"}
        THEN [code |-> "AUTHORIZATION_ERROR", treatments |-> tr]
    ELSE [code |-> "OK", treatments |-> [tr EXCEPT ![treatmentId].isActive = FALSE]]

deleteTreatment(bks, tr, t, actor, treatmentId) ==
    IF treatmentId \notin DOMAIN tr
        THEN [code |-> "NOT_FOUND_ERROR", treatments |-> tr]
    ELSE IF Users[actor].role = "store_admin" /\ tr[treatmentId].storeId # Users[actor].storeId
        THEN [code |-> "AUTHORIZATION_ERROR", treatments |-> tr]
    ELSE IF Users[actor].role \in {"staff", "customer"}
        THEN [code |-> "AUTHORIZATION_ERROR", treatments |-> tr]
    ELSE IF activeBookings(bks, treatmentId, t) > 0
        THEN [code |-> "ACTIVE_BOOKINGS_EXIST", treatments |-> tr]
    ELSE [code |-> "OK", treatments |-> [tr EXCEPT ![treatmentId].isActive = FALSE]]

DeleteActors == {"sa", "a1", "u1", "c1"}

DeleteTreatment ==
    \E actor \in DeleteActors, treatmentId \in TreatmentIds \cup {"x9"} :
        /\ treatments' = deleteTreatment(bookings, treatments, now, actor, treatmentId).treatments
        /\ UNCHANGED <<bookings, slots, events, now, pc, rq, subs, stores, loaded>>

(***************************************************************************)
(* QuotaController.updateQuotaSettings and the readers of the settings     *)
(***************************************************************************)
\* JSON null and JavaScript's NaN among the values of a settings key
NullSetting == 0 - 1
NaN == 0 - 2

QuotaKeys == {"maxDailyBookings", "maxConcurrentBookings", "bufferTimeMinutes"}

\* request bodies: each key absent, null or a number
QuotaBodies ==
    UNION {[keys -> {NullSetting, 0, 2}] : keys \in SUBSET QuotaKeys}

\* parseInt of a body value: a number stays, null parses to NaN
parseInt(v) == IF v = NullSetting THEN NaN ELSE v

\* a value as the JSONB column returns it: JSON has no NaN and writes null
jsonb(v) == IF v = NaN THEN NullSetting ELSE v

\* `value || fallback` on a setting that may be absent
orElse(settings, key, fallback) ==
    IF key \in DOMAIN settings /\ settings[key] \notin {0, NullSetting, NaN}
    THEN settings[key] ELSE fallback

\* the limit the quota checks read from the store; NullSetting: no limit
dailyLimit(st, storeId) == orElse(st[storeId].settings, "maxDailyBookings", NullSetting)
storeMaxCapacity(st, storeId) == orElse(st[storeId].settings, "maxConcurrentBookings", NullSetting)

\* the update with the body taken as the new settings
updateQuotaSettingsReplacing(st, actor, storeId, body) ==
    IF ~adminOfStore(actor, storeId) THEN [code |-> "AUTHORIZATION_ERROR", stores |-> st]
    ELSE IF storeId \notin DOMAIN st THEN [code |-> "NOT_FOUND_ERROR", stores |-> st]
    ELSE [code |-> "OK",
          stores |-> [st EXCEPT ![storeId].settings =
                        [k \in DOMAIN body |-> jsonb(parseInt(body[k]))]]]

updateQuotaSettings(st, actor, storeId, body) ==
    IF ~adminOfStore(actor, storeId) THEN [code |-> "AUTHORIZATION_ERROR", stores |-> st]
    ELSE IF storeId \notin DOMAIN st THEN [code |-> "NOT_FOUND_ERROR", stores |-> st]
    ELSE [code |-> "OK",
          stores |-> [st EXCEPT ![storeId].settings =
                        [k \in DOMAIN st[storeId].settings \cup DOMAIN body |->
                            IF k \in DOMAIN body THEN jsonb(parseInt(body[k]))
                            ELSE st[storeId].settings[k]]]]

UpdateQuotaSettings ==
    \E actor \in GenerateActors, storeId \in {"s1", "s2"}, body \in QuotaBodies :
        /\ stores' = updateQuotaSettings(stores, actor, storeId, body).stores
        /\ UNCHANGED <<bookings, slots, events, now, pc, rq, subs, treatments, loaded>>

(***************************************************************************)
(* Requests served concurrently on one row: reserveTimeslot and            *)
(* releaseTimeslot (findOne, then incrementBookings or decrementBookings   *)
(* on the instance read), and sendWebhook on the subscription instance     *)
(* that triggerWebhooks read. Each await is a point where another request  *)
(* runs. instance.save() writes the fields the request changed.            *)
(***************************************************************************)
NoInstance == [slot |-> NullId, sub |-> 0, row |-> <<>>]

\* Timeslot.findOne of reserveTimeslot
ReserveLoad(w) ==
    /\ pc[w] = "idle"
    /\ \E iv \in ServiceIntervals :
        \E k \in coveringSlots(slots, "s1", iv[1], iv[2], TRUE) :
            loaded' = [loaded EXCEPT ![w] = [slot |-> k, sub |-> 0, row |-> slots[k]]]
    /\ pc' = [pc EXCEPT ![w] = "reserve"]
    /\ UNCHANGED <<bookings, slots, events, now, rq, subs, stores, treatments>>

\* the timeslots table after the instance's counter is saved
saveBookings(sl, instance) ==
    [sl EXCEPT ![instance.slot].currentBookings = instance.row.currentBookings]

\* timeslot.incrementBookings()
ReserveSave(w) ==
    /\ pc[w] = "reserve"
    /\ incrementBookings(loaded[w].row).currentBookings <= MaxCurrent
    /\ slots' = saveBookings(slots, [loaded[w] EXCEPT !.row = incrementBookings(@)])
    /\ pc' = [pc EXCEPT ![w] = "idle"]
    /\ loaded' = [loaded EXCEPT ![w] = NoInstance]
    /\ UNCHANGED <<bookings, events, now, rq, subs, stores, treatments>>

\* Timeslot.findOne of releaseTimeslot
ReleaseLoad(w) ==
    /\ pc[w] = "idle"
    /\ \E iv \in ServiceIntervals :
        \E k \in coveringSlots(slots, "s1", iv[1], iv[2], FALSE) :
            loaded' = [loaded EXCEPT ![w] = [slot |-> k, sub |-> 0, row |-> slots[k]]]
    /\ pc' = [pc EXCEPT ![w] = "release"]
    /\ UNCHANGED <<bookings, slots, events, now, rq, subs, stores, treatments>>

\* timeslot.decrementBookings()
ReleaseSave(w) ==
    /\ pc[w] = "release"
    /\ slots' = saveBookings(slots, [loaded[w] EXCEPT !.row = decrementBookings(@)])
    /\ pc' = [pc EXCEPT ![w] = "idle"]
    /\ loaded' = [loaded EXCEPT ![w] = NoInstance]
    /\ UNCHANGED <<bookings, events, now, rq, subs, stores, treatments>>

\* triggerWebhooks: findActiveForEvent, one instance per subscription
DeliverLoad(w) ==
    /\ pc[w] = "idle"
    /\ \E eventType \in EventTypes :
        \E i \in findActiveForEvent(subs, eventType) :
            loaded' = [loaded EXCEPT ![w] = [slot |-> NullId, sub |-> i, row |-> subs[i]]]
    /\ pc' = [pc EXCEPT ![w] = "deliver"]
    /\ UNCHANGED <<bookings, slots, events, now, rq, subs, stores, treatments>>

\* the subscriptions table after recordFailure on the instance is saved:
\* the fields recordFailure assigned are written
saveFailure(table, instance, t) ==
    LET row == recordFailure(instance.row, PostError, t)
    IN  [table EXCEPT ![instance.sub] =
            [@ EXCEPT !.lastFailureAt = row.lastFailureAt,
                      !.lastFailureReason = row.lastFailureReason,
                      !.retryCount = row.retryCount,
                      !.isActive = IF row.isActive # instance.row.isActive
                                   THEN row.isActive ELSE @]]

\* sendWebhook with the POST failing: recordFailure(error.message)
DeliverFail(w) ==
    /\ pc[w] = "deliver"
    /\ \A i \in DOMAIN subs : saveFailure(subs, loaded[w], now)[i].retryCount <= MaxFailures
    /\ subs' = saveFailure(subs, loaded[w], now)
    /\ pc' = [pc EXCEPT ![w] = "idle"]
    /\ loaded' = [loaded EXCEPT ![w] = NoInstance]
    /\ UNCHANGED <<bookings, slots, events, now, rq, stores, treatments>>

(***************************************************************************)
(* Initial state and specifications                                        *)
(***************************************************************************)
Init ==
    /\ bookings = <<>>
    /\ slots = InitSlots
    /\ events = <<>>
    /\ now = 0
    /\ pc = [w \in Workers |-> "idle"]
    /\ rq = [w \in Workers |-> IdleRequest]
    /\ subs = <<>>
    /\ stores = Stores
    /\ treatments = Treatments
    /\ loaded = [w \in Workers |-> NoInstance]

Next ==
    \/ CreateBooking
    \/ UpdateBooking
    \/ CancelBookingNoReason
    \/ UpdateBookingStatus

Spec == Init /\ [][Next]_vars

\* admission, cancellation and the timeslot counters, with the clock running
NextEngine ==
    \/ CreateBooking
    \/ CancelBooking
    \/ ReserveTimeslot
    \/ ReleaseTimeslot
    \/ Tick

SpecEngine == Init /\ [][NextEngine]_vars

\* createBooking requests served concurrently, interleaved at every query
NextConcurrent ==
    \E w \in Workers :
        \/ CreateBegin(w)
        \/ CreateCheck(w)
        \/ CreateInsert(w)

SpecConcurrent == Init /\ [][NextConcurrent]_vars

\* the event dispatcher and the administration of its subscriptions
NextWebhook ==
    \/ CreateSubscription
    \/ UpdateSubscription
    \/ TestSubscription
    \/ RetryFailedWebhooks
    \/ TriggerWebhooks

SpecWebhook == Init /\ [][NextWebhook]_vars

\* events dispatched to subscriptions, with the retry operation run again
\* and again
NextRetry ==
    \/ CreateSubscription
    \/ TriggerWebhooks
    \/ RetryFailedWebhooks

SpecRetry == Init /\ [][NextRetry]_vars /\ WF_vars(RetryFailedWebhooks)

\* the timeslots of a store generated and regenerated while its opening
\* hours are edited and bookings reserve the slots; the timeslots table
\* starts empty
InitGeneration ==
    /\ bookings = <<>>
    /\ slots = NoSlots
    /\ events = <<>>
    /\ now = 0
    /\ pc = [w \in Workers |-> "idle"]
    /\ rq = [w \in Workers |-> IdleRequest]
    /\ subs = <<>>
    /\ stores = Stores
    /\ treatments = Treatments
    /\ loaded = [w \in Workers |-> NoInstance]

NextGeneration ==
    \/ GenerateTimeslots
    \/ BulkGenerateTimeslots
    \/ UpdateOperatingHours
    \/ ReserveTimeslot
    \/ ReleaseTimeslot

SpecGeneration == InitGeneration /\ [][NextGeneration]_vars

\* treatments deactivated while bookings of them are made and cancelled
\* and the clock runs past them
NextTreatment ==
    \/ CreateBooking
    \/ CancelBooking
    \/ DeleteTreatment
    \/ Tick

SpecTreatment == Init /\ [][NextTreatment]_vars

\* the settings and opening hours of a store edited by its administrators
NextSettings ==
    \/ UpdateQuotaSettings
    \/ UpdateOperatingHours

SpecSettings == Init /\ [][NextSettings]_vars

\* one subscription in any condition its fields can be in (retry counts up
\* to the largest maxRetries the model validation admits, deliveries
\* recorded at instants up to the clock), tested while the clock runs
MaxRetriesLimit == 10

StampInstants == {NullTime, 0, 90, 160, 1600}

SubscriptionRows ==
    {r \in [url : {"https://hooks.example/a"},
            events : {{BOOKING_CREATED}},
            isActive : BOOLEAN,
            retryCount : 0 .. MaxRetriesLimit,
            maxRetries : {3, MaxRetriesLimit},
            lastSuccessAt : StampInstants,
            lastFailureAt : StampInstants,
            lastFailureReason : {NullReason, PostError}] :
        /\ (r.retryCount > 0 => r.lastFailureAt # NullTime)
        /\ (r.lastFailureReason = PostError <=> r.retryCount > 0)
        /\ (r.lastFailureAt # NullTime /\ r.lastSuccessAt # NullTime /\ r.retryCount > 0
               => r.lastSuccessAt <= r.lastFailureAt)}

InitHealth ==
    /\ bookings = <<>>
    /\ slots = InitSlots
    /\ events = <<>>
    /\ now \in {Instants[i] : i \in DOMAIN Instants}
    /\ pc = [w \in Workers |-> "idle"]
    /\ rq = [w \in Workers |-> IdleRequest]
    /\ subs \in {<<r>> : r \in {x \in SubscriptionRows :
                                  x.lastSuccessAt <= now /\ x.lastFailureAt <= now}}
    /\ stores = Stores
    /\ treatments = Treatments
    /\ loaded = [w \in Workers |-> NoInstance]

NextHealth ==
    \/ TestSubscription
    \/ Tick

SpecHealth == InitHealth /\ [][NextHealth]_vars

\* reservations, releases and failing deliveries served concurrently
NextRaces ==
    \/ CreateSubscription
    \/ \E w \in Workers :
        \/ ReserveLoad(w)
        \/ ReserveSave(w)
        \/ ReleaseLoad(w)
        \/ ReleaseSave(w)
        \/ DeliverLoad(w)
        \/ DeliverFail(w)

SpecRaces == Init /\ [][NextRaces]_vars

(***************************************************************************)
(* Properties                                                              *)
(***************************************************************************)
NonTerminal(b) == b.status \notin {CANCELLED, NO_SHOW}

\* half-open intervals [a, b) and [c, d) overlap
Overlap(a, b, c, d) == a < d /\ c < b

Contains(b, t) == b.bookingDateTime <= t /\ t < getEndDateTime(b)

\* instants at which a count of overlapping bookings can peak
Peaks == {bookings[i].bookingDateTime : i \in DOMAIN bookings}

\* C1: two distinct non-terminal bookings of the same staff member never
\* overlap as half-open intervals.
C1_StaffExclusive ==
    \A i, j \in DOMAIN bookings :
        (/\ i # j
         /\ bookings[i].staffId # NullId
         /\ bookings[i].staffId = bookings[j].staffId
         /\ NonTerminal(bookings[i])
         /\ NonTerminal(bookings[j]))
        => ~Overlap(bookings[i].bookingDateTime, getEndDateTime(bookings[i]),
                    bookings[j].bookingDateTime, getEndDateTime(bookings[j]))

requestEnd(r) == r.bookingDateTime + treatments[r.treatmentId].duration

\* every request served, well formed, inside a slot of capacity 1, and
\* overlapping every other request
Contending ==
    /\ \A w \in Workers :
        /\ pc[w] = "done"
        /\ createPrecheck(<<>>, rq[w].actor, rq[w].body) = "PASS"
        /\ \E t \in coveringSlots(slots, rq[w].body.storeId, rq[w].body.bookingDateTime,
                                  requestEnd(rq[w].body), TRUE) :
              slots[t].maxCapacity = 1
    /\ \A v, w \in Workers :
        Overlap(rq[v].body.bookingDateTime, requestEnd(rq[v].body),
                rq[w].body.bookingDateTime, requestEnd(rq[w].body))

\* C2: when every concurrent request is well formed, lies in a timeslot of
\* capacity 1 and overlaps the others, exactly one is created and every
\* other one is answered CONFLICT_ERROR.
C2_OneWinner ==
    Contending =>
        /\ Cardinality({w \in Workers : rq[w].code = "CREATED"}) = 1
        /\ \A w \in Workers : rq[w].code \in {"CREATED", "CONFLICT_ERROR"}

\* C3: every timeslot counter stays between 0 and the slot's maxCapacity.
C3_CounterInRange ==
    \A t \in DOMAIN slots :
        /\ 0 <= slots[t].currentBookings
        /\ slots[t].currentBookings <= slots[t].maxCapacity

\* C4: at every instant the non-terminal bookings of a treatment that
\* contain it number at most the treatment's maxConcurrentBookings.
C4_TreatmentConcurrency ==
    \A x \in TreatmentIds, t \in Peaks :
        Cardinality({i \in DOMAIN bookings :
                        /\ bookings[i].treatmentId = x
                        /\ NonTerminal(bookings[i])
                        /\ Contains(bookings[i], t)})
            <= treatments[x].maxConcurrentBookings

\* C5: at every instant the non-terminal bookings whose treatment requires
\* a resource and that contain the instant number at most its capacity.
C5_ResourceCapacity ==
    \A r \in ResourceIds, t \in Peaks :
        Cardinality({i \in DOMAIN bookings :
                        /\ r \in treatments[bookings[i].treatmentId].requiredResources
                        /\ NonTerminal(bookings[i])
                        /\ Contains(bookings[i], t)})
            <= Resources[r].capacity

\* the lifecycle graph: an edge from status a to status b of booking row b0 at time t
LifecycleEdge(a, b, b0, t) ==
    \/ a = PENDING /\ b = CONFIRMED
    \/ a = CONFIRMED /\ b = IN_PROGRESS
    \/ a = IN_PROGRESS /\ b = COMPLETED
    \/ a \in {PENDING, CONFIRMED, IN_PROGRESS} /\ b = CANCELLED
    \/ a \in {PENDING, CONFIRMED} /\ b = NO_SHOW /\ t > b0.bookingDateTime

\* C6: every change of a booking's status is an edge of the lifecycle graph.
C6_LifecycleOnly ==
    [][\A i \in DOMAIN bookings :
          (i \in DOMAIN bookings' /\ bookings'[i].status # bookings[i].status)
          => LifecycleEdge(bookings[i].status, bookings'[i].status, bookings[i], now)]_vars

\* C7: a step that inserts a booking inserts it pending, raises the counter
\* of the timeslot covering it by one and enqueues one booking.created.
C7_AdmitEffects ==
    [][Len(bookings') = Len(bookings) + 1 =>
          LET b == bookings'[Len(bookings')]
          IN  /\ b.status = PENDING
              /\ \A t \in coveringSlots(slots, b.storeId, b.bookingDateTime,
                                        getEndDateTime(b), TRUE) :
                    slots'[t].currentBookings = slots[t].currentBookings + 1
              /\ events' = Append(events, BOOKING_CREATED)]_vars

TypedErrors ==
    {"CUSTOMER_REQUIRED", "NOT_FOUND_ERROR", "TREATMENT_STORE_MISMATCH",
     "INVALID_STAFF", "CONFLICT_ERROR", "VALIDATION_ERROR"}

\* C8: a createBooking that is not admitted answers a typed error and leaves
\* the bookings, the timeslot counters and the events as they were.
C8_RejectWritesNothing ==
    \A actor \in Actors, r \in CreateRequests :
        LET reply == createBooking(DB, actor, r)
        IN  reply.code # "CREATED" =>
                /\ reply.code \in TypedErrors
                /\ reply.db.bookings = bookings
                /\ reply.db.slots = slots
                /\ reply.db.events = events

\* a state in which a request is refused for a staff conflict
C8_Witness ==
    /\ Len(bookings) >= 1
    /\ \E actor \in Actors, r \in CreateRequests :
          /\ r.staffId = "u1"
          /\ createBooking(DB, actor, r).code = "CONFLICT_ERROR"

LaterInstants == {Instants[k] : k \in {n \in 1 .. Len(Instants) : Instants[n] >= now}}

\* C9: createBooking followed by a permitted cancelBooking of the new
\* booking leaves it cancelled with cancelledAt set, and every timeslot
\* counter at its value before the booking was created.
C9_CancelRestores ==
    \A actor \in Actors, r \in CreateRequests :
        LET made == createBooking(DB, actor, r)
            id == Len(made.db.bookings)
        IN  made.code = "CREATED" =>
                \A who \in Actors, reason \in CancelReasons, t2 \in LaterInstants :
                    LET undone == cancelBooking(made.db, t2, who, id, reason)
                    IN  undone.code = "OK" =>
                            /\ undone.db.bookings[id].status = CANCELLED
                            /\ undone.db.bookings[id].cancelledAt = t2
                            /\ \A t \in DOMAIN slots :
                                  undone.db.slots[t].currentBookings
                                      = slots[t].currentBookings

\* a booking created and cancelled while the slot counter is not zero
C9_Witness ==
    /\ \E i \in DOMAIN bookings :
          bookings[i].status = CANCELLED /\ bookings[i].cancelledAt # NullTime
    /\ \E t \in DOMAIN slots : slots[t].currentBookings > 0

\* C10: cancelBooking on a booking that is already cancelled changes neither
\* the booking nor any timeslot counter.
C10_CancelTwice ==
    \A i \in DOMAIN bookings, who \in Actors, reason \in CancelReasons,
       t2 \in LaterInstants :
        bookings[i].status = CANCELLED =>
            LET again == cancelBooking(DB, t2, who, i, reason)
            IN  /\ again.code = "BOOKING_NOT_CANCELLABLE"
                /\ again.db.bookings = bookings
                /\ again.db.slots = slots

\* a cancelled booking, with the clock past its cancellation, whose deadline
\* would still admit a cancellation
C10_Witness ==
    \E i \in DOMAIN bookings :
        /\ bookings[i].status = CANCELLED
        /\ bookings[i].cancellationReason = "changed plans"
        /\ now > bookings[i].cancelledAt
        /\ bookings[i].bookingDateTime - now >= cancellationDeadlineHours * MinutesPerHour

\* C11: a booking's status becomes cancelled only from a status outside
\* {completed, cancelled, no_show} and at least cancellationDeadlineHours
\* before its start.
C11_CancelOnlyWhenCancellable ==
    [][\A i \in DOMAIN bookings :
          (bookings'[i].status = CANCELLED /\ bookings[i].status # CANCELLED)
          => /\ bookings[i].status \notin {COMPLETED, CANCELLED, NO_SHOW}
             /\ bookings[i].bookingDateTime - now
                    >= cancellationDeadlineHours * MinutesPerHour]_vars

\* C12: bookingDateTime and staffId of a booking change only while its
\* status is pending or confirmed and its start lies after now.
C12_ModifyOnlyWhenModifiable ==
    [][\A i \in DOMAIN bookings :
          (\/ bookings'[i].bookingDateTime # bookings[i].bookingDateTime
           \/ bookings'[i].staffId # bookings[i].staffId)
          => canBeModified(bookings[i], now)]_vars

\* C13: after a step that changes bookingDateTime or staffId of a booking
\* with a staff member, no other non-terminal booking of that staff member
\* overlaps it.
C13_UpdateChecksConflicts ==
    [][\A i \in DOMAIN bookings :
          (/\ \/ bookings'[i].bookingDateTime # bookings[i].bookingDateTime
              \/ bookings'[i].staffId # bookings[i].staffId
           /\ bookings'[i].staffId # NullId
           /\ NonTerminal(bookings'[i]))
          => \A j \in DOMAIN bookings' :
                (/\ j # i
                 /\ bookings'[j].staffId = bookings'[i].staffId
                 /\ NonTerminal(bookings'[j]))
                => ~Overlap(bookings'[i].bookingDateTime, getEndDateTime(bookings'[i]),
                            bookings'[j].bookingDateTime, getEndDateTime(bookings'[j]))]_vars

\* C14: a step that inserts a booking finds an active timeslot of the store
\* covering the booking, with room left and accepting the treatment.
C14_TimeslotGate ==
    [][Len(bookings') = Len(bookings) + 1 =>
          LET b == bookings'[Len(bookings')]
          IN  \E t \in availableSlots(slots, b.storeId, b.bookingDateTime,
                                      getEndDateTime(b)) :
                  canAccommodateTreatment(slots[t], b.treatmentId)]_vars

\* requests naming a staff member of the store, active or not
StaffRequests ==
    [customerId : {"c1"}, storeId : {"s1"}, treatmentId : {"x1"},
     staffId : {"u1", "u2"}, bookingDateTime : Starts]

\* C15: createBooking with a staffId creates a booking only if the id names
\* an active user of the store with role staff or store_admin.
C15_StaffEligible ==
    \A actor \in Actors, r \in StaffRequests :
        createBooking(DB, actor, r).code = "CREATED" =>
            /\ r.staffId \in UserIds
            /\ Users[r.staffId].isActive
            /\ Users[r.staffId].storeId = r.storeId
            /\ Users[r.staffId].role \in {"staff", "store_admin"}

\* C16: the non-terminal bookings of a store on one day never number more
\* than the store's maxDailyBookings.
C16_DailyLimit ==
    \A st \in StoreIds, i \in DOMAIN bookings :
        Cardinality(dailyBookings(bookings, st, bookings[i].bookingDateTime))
            <= Stores[st].settings.maxDailyBookings

\* C17: a subscription whose retryCount has reached maxRetries is inactive.
C17_ExhaustedIsInactive ==
    \A i \in DOMAIN subs :
        subs[i].retryCount >= subs[i].maxRetries => ~subs[i].isActive

\* the table after n triggerWebhooks of eventType in a row, every POST failing
RECURSIVE failEvery(_, _, _, _)
failEvery(table, t, eventType, n) ==
    IF n = 0 THEN table
    ELSE triggerWebhooks(failEvery(table, t, eventType, n - 1), t, eventType,
                         DOMAIN table).subs

\* C18: an active subscription with retryCount 0 and maxRetries >= 1 whose
\* every POST fails is delivered to maxRetries times, and is then inactive
\* with retryCount = maxRetries, a failure reason, health disabled, and no
\* further delivery.
C18_DisabledAfterMaxRetries ==
    \A i \in DOMAIN subs :
        (subs[i].isActive /\ subs[i].retryCount = 0 /\ subs[i].maxRetries >= 1) =>
            \A eventType \in subs[i].events :
                LET m == subs[i].maxRetries
                    after == failEvery(subs, now, eventType, m)
                IN  /\ \A k \in 0 .. m - 1 :
                          LET before == failEvery(subs, now, eventType, k)
                          IN  /\ before[i].isActive
                              /\ before[i].retryCount = k
                              /\ triggerWebhooks(before, now, eventType,
                                                 DOMAIN subs).posts[i] = 1
                    /\ ~after[i].isActive
                    /\ after[i].retryCount = m
                    /\ after[i].lastFailureReason # NullReason
                    /\ getHealthStatus(after[i], now) = "disabled"
                    /\ \A later \in EventTypes :
                          triggerWebhooks(after, now, later, {}).posts[i] = 0

\* a subscription switched off by its second failure in a row
C18_Witness ==
    \E i \in DOMAIN subs :
        /\ ~subs[i].isActive
        /\ subs[i].maxRetries = 2
        /\ subs[i].retryCount = 2
        /\ subs[i].lastFailureReason = PostError

\* C19: a successful delivery sets lastSuccessAt to now, retryCount to 0 and
\* lastFailureReason to null, and leaves isActive, maxRetries, lastFailureAt,
\* url and events as they were.
C19_SuccessFrame ==
    \A i \in DOMAIN subs :
        LET after == sendWebhook(subs[i], now, TRUE)
        IN  /\ after.lastSuccessAt = now
            /\ after.retryCount = 0
            /\ after.lastFailureReason = NullReason
            /\ after.isActive = subs[i].isActive
            /\ after.maxRetries = subs[i].maxRetries
            /\ after.lastFailureAt = subs[i].lastFailureAt
            /\ after.url = subs[i].url
            /\ after.events = subs[i].events

\* a switched-off subscription that failed and then answered a test POST
C19_Witness ==
    \E i \in DOMAIN subs :
        /\ ~subs[i].isActive
        /\ subs[i].lastFailureAt # NullTime
        /\ subs[i].lastSuccessAt = now
        /\ subs[i].retryCount = 0
        /\ subs[i].lastFailureReason = NullReason
        /\ subs[i].maxRetries >= 1

\* C20: triggerWebhooks sends one POST to every subscription that is active
\* and subscribed to the event, and none to any other subscription.
C20_SelectsActiveSubscribed ==
    \A eventType \in EventTypes, failing \in SUBSET DOMAIN subs :
        \A i \in DOMAIN subs :
            triggerWebhooks(subs, now, eventType, failing).posts[i]
                = IF subs[i].isActive /\ eventType \in subs[i].events THEN 1 ELSE 0

\* two subscriptions to booking.created, one delivered to, one switched off
C20_Witness ==
    \E i, j \in DOMAIN subs :
        /\ BOOKING_CREATED \in subs[i].events \cap subs[j].events
        /\ subs[i].isActive /\ subs[i].lastSuccessAt # NullTime
        /\ ~subs[j].isActive

\* C21: a subscription with a failed delivery and no success yet eventually
\* receives a POST answered 2xx or is switched off.
C21_AtLeastOnce ==
    \A i \in SubIds :
        (/\ i \in DOMAIN subs
         /\ subs[i].isActive
         /\ subs[i].retryCount > 0
         /\ subs[i].lastSuccessAt = NullTime)
        ~> (i \in DOMAIN subs /\ (subs[i].lastSuccessAt # NullTime \/ ~subs[i].isActive))

\* C22: whatever fails during a dispatch (the POST, loading the
\* subscriptions, saving a row), triggerWebhooks returns a {sent, failed}
\* result, and the rows differ from before at most in the health fields of
\* the subscriptions it sent to.
C22_FailuresContained ==
    \A eventType \in EventTypes, failing \in SUBSET DOMAIN subs, loadFails \in BOOLEAN,
       saves \in [DOMAIN subs -> SaveOutcomes] :
        LET r == triggerWebhooksFaulty(subs, now, eventType, failing, loadFails, saves)
        IN  /\ ~r.threw
            /\ r.sent \in 0 .. Len(subs)
            /\ r.failed \in 0 .. Len(subs)
            /\ \A i \in DOMAIN subs :
                  /\ r.subs[i].url = subs[i].url
                  /\ r.subs[i].events = subs[i].events
                  /\ r.subs[i].maxRetries = subs[i].maxRetries
                  /\ i \notin findActiveForEvent(subs, eventType) => r.subs[i] = subs[i]

\* two subscriptions to one event, one with a failure on record and still
\* active
C22_Witness ==
    \E i, j \in DOMAIN subs :
        /\ i # j
        /\ subs[i].events = subs[j].events
        /\ subs[i].isActive /\ subs[j].isActive
        /\ subs[i].lastFailureReason = PostError
        /\ subs[j].lastFailureReason = NullReason

\* the existing timeslots of a store that start on a date
slotsOfDate(storeId, date) ==
    {k \in DOMAIN slots :
        /\ slots[k].storeId = storeId
        /\ slots[k].startTime >= startOfDay(date)
        /\ slots[k].startTime <= endOfDay(date)}

\* C23: generateTimeslots for a date on which the store is closed generates
\* nothing and leaves the timeslots table as it was.
C23_ClosedDayNoWrites ==
    \A storeId \in StoreIds, date \in Dates, slotDuration \in SlotDurations,
       maxCapacity \in Capacities :
        stores[storeId].operatingHours[dayName(date)].closed
        => LET r == generateTimeslots(slots, stores, storeId, date, slotDuration, maxCapacity)
           IN  r.slotsGenerated = 0 /\ r.slots = slots

\* C24: generateTimeslots for a date one of whose timeslots has bookings
\* (currentBookings > 0) fails with a conflict error and leaves the
\* timeslots table as it was.
C24_BookedDateRefused ==
    \A storeId \in StoreIds, date \in Dates, slotDuration \in SlotDurations,
       maxCapacity \in Capacities :
        (\E k \in slotsOfDate(storeId, date) : slots[k].currentBookings > 0)
        => LET r == generateTimeslots(slots, stores, storeId, date, slotDuration, maxCapacity)
           IN  r.code # "OK" /\ r.slots = slots

\* C25: however the timeslots were generated and regenerated, two active
\* timeslots of one store never overlap as half-open intervals.
C25_GeneratedDisjoint ==
    \A j, k \in DOMAIN slots :
        (j # k /\ slots[j].storeId = slots[k].storeId
              /\ slots[j].isActive /\ slots[k].isActive)
        => ~Overlap(slots[j].startTime, slots[j].endTime,
                    slots[k].startTime, slots[k].endTime)

\* a date regenerated into two touching timeslots next to a one-slot date
\* generated with another capacity
C25_Witness ==
    \E j, k, m \in DOMAIN slots :
        /\ slots[j].endTime = slots[k].startTime
        /\ slots[m].startTime >= startOfDay(2)
        /\ slots[m].endTime - slots[m].startTime # slots[j].endTime - slots[j].startTime
        /\ slots[m].maxCapacity # slots[j].maxCapacity

\* timeslots submitted to the beforeCreate hook
NewTimeslots ==
    {[storeId |-> "s1", startTime |-> iv[1], endTime |-> iv[2]] :
        iv \in {<<1440, 1500>>, <<1500, 1560>>, <<1530, 1590>>, <<1590, 1650>>,
                <<1620, 1680>>, <<1680, 1740>>}}

\* C30: validateNoOverlap rejects a new timeslot exactly when it overlaps,
\* as half-open intervals, an existing timeslot of its store; one that only
\* touches an existing timeslot is accepted.
C30_RejectsExactlyOverlap ==
    \A timeslot \in NewTimeslots :
        validateNoOverlap(slots, NullId, timeslot)
        <=> \E k \in DOMAIN slots :
               /\ slots[k].storeId = timeslot.storeId
               /\ Overlap(slots[k].startTime, slots[k].endTime,
                          timeslot.startTime, timeslot.endTime)

\* the reply codes of the four booking operations for one user and booking
bookingReplies(actor, id) ==
    {getBookingById(DB, actor, id).code}
    \cup {updateBooking(DB, now, actor, id, u).code : u \in UpdateRequests}
    \cup {cancelBooking(DB, now, actor, id, reason).code : reason \in CancelReasons}
    \cup {updateBookingStatus(DB, now, actor, id, status).code : status \in bookingStatus}

\* C26: on an existing booking, no booking operation rejects a super_admin
\* for authorization, every one rejects a store_admin or staff user of
\* another store, and every one rejects a customer who is not the
\* booking's customer.
C26_RoleScopes ==
    \A actor \in UserIds, id \in DOMAIN bookings :
        /\ Users[actor].role = "super_admin"
           => "AUTHORIZATION_ERROR" \notin bookingReplies(actor, id)
        /\ (Users[actor].role \in {"store_admin", "staff"}
               /\ bookings[id].storeId # Users[actor].storeId)
           => bookingReplies(actor, id) = {"AUTHORIZATION_ERROR"}
        /\ (Users[actor].role = "customer" /\ bookings[id].customerId # actor)
           => bookingReplies(actor, id) = {"AUTHORIZATION_ERROR"}

\* the instants a deleteTreatment call is timed at: the clock, and the start
\* of each booking
DeleteInstants == {now} \cup Peaks

C29_HalfOpenConflicts ==
    \A i \in DOMAIN bookings, startTime \in Starts :
        LET endTime == startTime + bookings[i].duration
        IN  ConflictWindow(bookings[i], startTime, endTime)
            <=> Overlap(bookings[i].bookingDateTime, getEndDateTime(bookings[i]),
                        startTime, endTime)

\* slot durations tried on the opening hours: dividing them, leaving a
\* remainder, and longer than the whole day's opening
DailyDurations == SlotDurations \cup {45, 50, 130}

\* C31: on an open day generateDailySlots returns exactly the slots
\* [open + k*D, open + (k+1)*D) for k = 0 .. (close - open) div D - 1, each
\* with no bookings and the capacity asked for; a last partial slot is
\* left out.
C31_ContiguousSlots ==
    \A storeId \in StoreIds, date \in Dates, D \in DailyDurations, capacity \in Capacities :
        LET hours == stores[storeId].operatingHours[dayName(date)]
            open == setHours(date, hours.open)
            close == setHours(date, hours.close)
            generated == generateDailySlots(stores, storeId, date, D, capacity)
        IN  ~hours.closed
            => /\ {<<r.startTime, r.endTime>> : r \in generated}
                    = {<<open + k * D, open + (k + 1) * D>> :
                          k \in 0 .. ((close - open) \div D) - 1}
               /\ Cardinality(generated) = (close - open) \div D
               /\ \A r \in generated :
                     /\ r.storeId = storeId
                     /\ r.endTime <= close
                     /\ r.currentBookings = 0
                     /\ r.maxCapacity = capacity

\* a date generated with 90-minute slots: one slot, the remaining half hour
\* of the opening hours is left without a slot
C31_Witness ==
    \E k \in DOMAIN slots :
        /\ slots[k].endTime - slots[k].startTime = 90
        /\ slots[k].startTime = setHours(1, stores["s1"].operatingHours[dayName(1)].open)
        /\ ~stores["s1"].operatingHours[dayName(1)].closed
        /\ \A j \in DOMAIN slots : slots[j].startTime <= endOfDay(1) => j = k

\* the table of the claim, in milliseconds, by retryCount
BackoffTable ==
    [n \in 0 .. MaxRetriesLimit |->
        CASE n = 0 -> 1000 [] n = 1 -> 2000 [] n = 2 -> 4000 [] n = 3 -> 8000
          [] n = 4 -> 16000 [] n = 5 -> 32000 [] OTHER -> 60000]

\* C32: for every retryCount from 0 to 10 getNextRetryDelay is
\* min(2^retryCount, 60) seconds: 1, 2, 4, 8, 16, 32, 60, 60, ...; it never
\* decreases as retryCount grows and never exceeds 60 seconds.
C32_BackoffCapped ==
    \A i \in DOMAIN subs :
        /\ subs[i].retryCount \in 0 .. MaxRetriesLimit
           => getNextRetryDelay(subs[i]) = BackoffTable[subs[i].retryCount]
        /\ getNextRetryDelay(subs[i]) <= 60000
        /\ getNextRetryDelay(subs[i])
              <= getNextRetryDelay([subs[i] EXCEPT !.retryCount = @ + 1])

\* a subscription at the largest retry count, where the ceiling holds the
\* delay down
C32_Witness ==
    \E i \in DOMAIN subs :
        subs[i].retryCount = MaxRetriesLimit /\ getNextRetryDelay(subs[i]) = 60000

\* C33: getHealthStatus answers with the first that applies of: disabled
\* (not active), retrying (retryCount > 0), warning (a failure within the
\* past 24 hours), inactive (no success, or the last one older than 24
\* hours), healthy.
C33_HealthOrder ==
    \A i \in DOMAIN subs :
        LET sub == subs[i]
            status == getHealthStatus(sub, now)
            dayAgo == now - MinutesPerDay
            recentFailure == sub.lastFailureAt # NullTime /\ sub.lastFailureAt > dayAgo
            noRecentSuccess == sub.lastSuccessAt = NullTime \/ sub.lastSuccessAt < dayAgo
        IN  /\ status = "disabled" <=> ~sub.isActive
            /\ status = "retrying" <=> (sub.isActive /\ sub.retryCount > 0)
            /\ status = "warning"
                  <=> (sub.isActive /\ sub.retryCount = 0 /\ recentFailure)
            /\ status = "inactive"
                  <=> (sub.isActive /\ sub.retryCount = 0 /\ ~recentFailure
                         /\ noRecentSuccess)
            /\ status = "healthy"
                  <=> (sub.isActive /\ sub.retryCount = 0 /\ ~recentFailure
                         /\ ~noRecentSuccess)

\* an active subscription that is retrying and also failed within the past
\* 24 hours: two statuses apply and the earlier one is returned
C33_Witness ==
    \E i \in DOMAIN subs :
        /\ subs[i].isActive
        /\ subs[i].retryCount > 0
        /\ subs[i].lastFailureAt > now - MinutesPerDay
        /\ subs[i].lastSuccessAt # NullTime
        /\ subs[i].lastSuccessAt < now - MinutesPerDay
        /\ getHealthStatus(subs[i], now) = "retrying"

\* the bookings a timeslot's counter stands for: those of its store, neither
\* cancelled nor no_show, whose interval the timeslot covers
coveredBookings(slot) ==
    {i \in DOMAIN bookings :
        /\ bookings[i].storeId = slot.storeId
        /\ bookings[i].status \notin NonBlocking
        /\ slot.startTime <= bookings[i].bookingDateTime
        /\ getEndDateTime(bookings[i]) <= slot.endTime}

\* C34: every active timeslot's currentBookings is the number of bookings
\* of its store, neither cancelled nor no_show, whose interval it covers.
C34_CounterCountsBookings ==
    \A k \in DOMAIN slots :
        slots[k].isActive
        => slots[k].currentBookings = Cardinality(coveredBookings(slots[k]))

\* C37: the retry count of every subscription stays between 0 and its
\* maxRetries.
C37_RetryCountBounded ==
    \A i \in DOMAIN subs :
        0 <= subs[i].retryCount /\ subs[i].retryCount <= subs[i].maxRetries

\* bodies a customer may send: up to three keys, among them notes and
\* metadata, with a status that is or is not cancelled
CustomerBodies ==
    {[keys |-> keys, staffId |-> "u1", bookingDateTime |-> 1530, status |-> status,
      cancellationReason |-> "changed plans", cancelledAt |-> 90] :
        keys \in {k \in SUBSET (UpdateKeys \cup {"notes", "metadata"}) : Cardinality(k) <= 3},
        status \in {CONFIRMED, CANCELLED}}

\* C38: of a customer's updateBooking body only notes survive, and status
\* with cancellationReason when the status asked for is cancelled; the
\* booking's other fields stay as they were, and its status changes to
\* nothing but cancelled.
C38_CustomerKeys ==
    \A actor \in {"c1", "c2"}, id \in DOMAIN bookings, u \in CustomerBodies :
        bookings[id].customerId = actor
        => LET old == bookings[id]
               new == updateBooking(DB, now, actor, id, u).db.bookings[id]
               kept == customerFilter(u).keys
           IN  /\ kept \subseteq {"notes", "status", "cancellationReason"}
               /\ ({"status", "cancellationReason"} \cap kept # {}
                      => "status" \in u.keys /\ u.status = CANCELLED)
               /\ new.staffId = old.staffId
               /\ new.bookingDateTime = old.bookingDateTime
               /\ new.duration = old.duration
               /\ new.customerId = old.customerId
               /\ new.storeId = old.storeId
               /\ new.treatmentId = old.treatmentId
               /\ new.completedAt = old.completedAt
               /\ new.status \in {old.status, CANCELLED}
               /\ (new.status # old.status => "status" \in u.keys /\ u.status = CANCELLED)
               /\ (new.cancellationReason # old.cancellationReason
                      => "status" \in u.keys /\ u.status = CANCELLED)
               /\ (new.cancelledAt # old.cancelledAt => new.status = CANCELLED)

\* a customer's own booking with a staff member assigned, cancelled without
\* a reason on record: the customer's update asked for status cancelled
C38_Witness ==
    \E id \in DOMAIN bookings :
        /\ bookings[id].customerId = "c1"
        /\ bookings[id].staffId = "u1"
        /\ bookings[id].status = CANCELLED
        /\ bookings[id].cancellationReason = NullReason
        /\ bookings[id].cancelledAt = now

\* C35: a failing delivery about to be recorded adds one to the stored
\* retry count, whatever other deliveries to the subscription failed since
\* its row was read, and the subscription is off once the count has
\* reached maxRetries.
C35_NoFailureLost ==
    \A w \in Workers :
        pc[w] = "deliver"
        => LET i == loaded[w].sub
               saved == saveFailure(subs, loaded[w], now)[i]
           IN  /\ saved.retryCount = subs[i].retryCount + 1
               /\ saved.retryCount >= saved.maxRetries => ~saved.isActive

\* C36: a reservation about to be saved raises the stored counter by one
\* and a release lowers it by one (not below 0), whatever other requests
\* saved since the row was read.
C36_NoCounterUpdateLost ==
    \A w \in Workers :
        /\ pc[w] = "reserve"
           => saveBookings(slots, [loaded[w] EXCEPT !.row = incrementBookings(@)])
                 [loaded[w].slot].currentBookings
              = slots[loaded[w].slot].currentBookings + 1
        /\ pc[w] = "release"
           => saveBookings(slots, [loaded[w] EXCEPT !.row = decrementBookings(@)])
                 [loaded[w].slot].currentBookings
              = decrementBookings(slots[loaded[w].slot]).currentBookings

====
